---------------------------- MODULE Spec2Model ----------------------------
(* HealthSyncAI: the three-stage report pipeline of data_processor.py and  *)
(* the run block of app.py that sequences it.                              *)
(*                                                                         *)
(* Texts are sequences of one-character strings.  Python values are tagged *)
(* records: [t |-> "null"], [t |-> "str", s |-> chars], [t |-> "num",      *)
(* n |-> int], [t |-> "float", tenths |-> int], [t |-> "nan"],             *)
(* [t |-> "bool", b |-> BOOLEAN], [t |-> "list"] (a non-empty list) and    *)
(* [t |-> "obj", o |-> function from keys to values].                      *)
EXTENDS Integers, Sequences, FiniteSets, TLC

VARIABLES
    pc,                      \* position of the run block of app.py
    api_key,                 \* OPENAI_API_KEY is set (app.py:18)
    tmp_file,                \* the NamedTemporaryFile on disk
    raw_json_model,          \* result of stage 1 (app.py:76)
    health_score_raw_output, \* result of stage 3 (app.py:105)
    specific_health_data_model, \* result of stage 2 (app.py:154)
    span,                    \* outcome of the span location and json.loads
    invoked,                 \* stage functions called in this run
    errors,                  \* st.error / st.warning messages shown
    code_shown,              \* text shown by st.code (app.py:168)
    score_shown,             \* value shown by st.metric (app.py:125)
    graph_shown,             \* value shown by st.json (app.py:159)
    fn_in,                   \* arguments of a direct call of a stage function
    fn_out                   \* what that call returned

vars == <<pc, api_key, tmp_file, raw_json_model, health_score_raw_output,
          specific_health_data_model, span, invoked, errors, code_shown,
          score_shown, graph_shown, fn_in, fn_out>>

-----------------------------------------------------------------------------
(* Bounds *)

MaxAgeLen == 3
MaxTextLen == 4
MaxMsgLen == 2

-----------------------------------------------------------------------------
(* Values *)

None == [t |-> "null"]
Str(chars) == [t |-> "str", s |-> chars]
Num(i) == [t |-> "num", n |-> i]
Float(i) == [t |-> "float", tenths |-> i]
NaN == [t |-> "nan"]
Bool(x) == [t |-> "bool", b |-> x]
List == [t |-> "list"]
Obj(f) == [t |-> "obj", o |-> f]
EmptyDict == Obj(<<>>)

SeqsUpTo(S, n) == UNION {[1..k -> S] : k \in 0..n}

\* dict.get(key): the value, or None when the key is missing
Get(d, k) == IF k \in DOMAIN d.o THEN d.o[k] ELSE None

\* dict.get(key, default)
GetOr(d, k, default) == IF k \in DOMAIN d.o THEN d.o[k] ELSE default

\* bool(v)
Truthy(v) ==
    CASE v.t = "null" -> FALSE
      [] v.t = "str" -> v.s # <<>>
      [] v.t = "num" -> v.n # 0
      [] v.t = "float" -> v.tenths # 0
      [] v.t = "nan" -> TRUE
      [] v.t = "bool" -> v.b
      [] v.t = "list" -> TRUE
      [] v.t = "obj" -> DOMAIN v.o # {}

-----------------------------------------------------------------------------
(* Texts: str.find, str.rfind, slicing, json.dumps and json.loads *)

\* str.find(c) as a 1-based position, 0 when c does not occur (Python: -1)
Find(text, c) ==
    IF \E i \in 1..Len(text) : text[i] = c
    THEN CHOOSE i \in 1..Len(text) :
            text[i] = c /\ \A j \in 1..(i - 1) : text[j] # c
    ELSE 0

\* str.rfind(c) as a 1-based position, 0 when c does not occur (Python: -1)
RFind(text, c) ==
    IF \E i \in 1..Len(text) : text[i] = c
    THEN CHOOSE i \in 1..Len(text) :
            text[i] = c /\ \A j \in (i + 1)..Len(text) : text[j] # c
    ELSE 0

\* text[start:end] for 0-based start and exclusive end, both within the text
Slice(text, start, end) ==
    IF end <= start THEN <<>> ELSE SubSeq(text, start + 1, end)

RECURSIVE Escape(_)
\* the body of a JSON string literal as json.dumps writes it: a backslash
\* before every quote and backslash (by halves, to keep the recursion flat)
Escape(chars) ==
    IF chars = <<>> THEN <<>>
    ELSE IF Len(chars) = 1
    THEN (IF chars[1] = "\"" THEN <<"\\", "\"">>
          ELSE IF chars[1] = "\\" THEN <<"\\", "\\">>
          ELSE chars)
    ELSE LET mid == Len(chars) \div 2 IN
         Escape(SubSeq(chars, 1, mid)) \o Escape(SubSeq(chars, mid + 1, Len(chars)))

kScore == <<"s", "c", "o", "r", "e">>
kReasoning == <<"r", "e", "a", "s", "o", "n", "i", "n", "g">>
ErrorPrefix == <<"E", "r", "r", "o", "r", ":", " ">>

\* the sentinel written without escaping the message
ErrorSentinel_Unescaped(msg) ==
    <<"{", "\"">> \o kScore \o <<"\"", ":", " ", "-", "1", ",", " ", "\"">>
    \o kReasoning \o <<"\"", ":", " ", "\"">>
    \o ErrorPrefix \o msg \o <<"\"", "}">>

\* json.dumps({"score": -1, "reasoning": f"Error: {e}"})
ErrorSentinel(msg) ==
    <<"{", "\"">> \o kScore \o <<"\"", ":", " ", "-", "1", ",", " ", "\"">>
    \o kReasoning \o <<"\"", ":", " ", "\"">>
    \o Escape(ErrorPrefix \o msg) \o <<"\"", "}">>

Digits == {"0", "1", "2", "3", "4", "5", "6", "7", "8", "9"}

DigitVal(c) ==
    CASE c = "0" -> 0 [] c = "1" -> 1 [] c = "2" -> 2 [] c = "3" -> 3
      [] c = "4" -> 4 [] c = "5" -> 5 [] c = "6" -> 6 [] c = "7" -> 7
      [] c = "8" -> 8 [] c = "9" -> 9

ParseFail == [ok |-> FALSE, val |-> None, pos |-> 0]
Parsed(v, p) == [ok |-> TRUE, val |-> v, pos |-> p]

RECURSIVE SkipWs(_, _)
SkipWs(t, i) == IF i <= Len(t) /\ t[i] = " " THEN SkipWs(t, i + 1) ELSE i

\* the number of consecutive backslashes right before position p, counted
\* no further back than position lo
BackslashesBefore(t, p, lo) ==
    CHOOSE k \in 0..(p - lo) :
        /\ \A j \in (p - k)..(p - 1) : t[j] = "\\"
        /\ k = p - lo \/ t[p - k - 1] # "\\"

\* the character at p, inside a string literal that starts at lo, is the
\* second character of an escape
Escaped(t, p, lo) == BackslashesBefore(t, p, lo) % 2 = 1

RECURSIVE Unescaped(_, _, _, _)
\* the characters of positions from..to of a string literal that starts at
\* lo, each escape replaced by the character it stands for
Unescaped(t, lo, from, to) ==
    IF from > to THEN <<>>
    ELSE IF from = to
    THEN (IF t[from] = "\\" /\ ~Escaped(t, from, lo) THEN <<>> ELSE <<t[from]>>)
    ELSE LET mid == (from + to) \div 2 IN
         Unescaped(t, lo, from, mid) \o Unescaped(t, lo, mid + 1, to)

\* the rest of a string literal from position i, after its opening quote:
\* up to the first quote that is not escaped; the escapes are \", \\ and \/
ScanString(t, i) ==
    LET closers == {e \in i..Len(t) : t[e] = "\"" /\ ~Escaped(t, e, i)} IN
    IF closers = {} THEN ParseFail
    ELSE LET e == CHOOSE x \in closers : \A y \in closers : x <= y IN
         IF \A p \in i..(e - 1) :
                (t[p] = "\\" /\ ~Escaped(t, p, i)) => t[p + 1] \in {"\"", "\\", "/"}
         THEN Parsed(Str(Unescaped(t, i, i, e - 1)), e + 1)
         ELSE ParseFail

RECURSIVE ScanDigits(_, _, _)
ScanDigits(t, i, acc) ==
    IF i <= Len(t) /\ t[i] \in Digits
    THEN ScanDigits(t, i + 1, 10 * acc + DigitVal(t[i]))
    ELSE [val |-> acc, pos |-> i]

\* an integer literal -?(0|[1-9][0-9]*) at position i
ScanNumber(t, i) ==
    LET neg == i <= Len(t) /\ t[i] = "-"
        j == IF neg THEN i + 1 ELSE i
    IN  IF j > Len(t) \/ t[j] \notin Digits THEN ParseFail
        ELSE LET d == IF t[j] = "0" THEN [val |-> 0, pos |-> j + 1]
                      ELSE ScanDigits(t, j, 0)
             IN  Parsed(Num(IF neg THEN 0 - d.val ELSE d.val), d.pos)

RECURSIVE ScanValue(_, _)
RECURSIVE ScanMembers(_, _, _)

\* the members of an object from position i, where a key must start
ScanMembers(t, i, acc) ==
    IF i > Len(t) \/ t[i] # "\"" THEN ParseFail
    ELSE LET k == ScanString(t, i + 1) IN
         IF ~k.ok THEN ParseFail
         ELSE LET c == SkipWs(t, k.pos) IN
              IF c > Len(t) \/ t[c] # ":" THEN ParseFail
              ELSE LET v == ScanValue(t, SkipWs(t, c + 1)) IN
                   IF ~v.ok THEN ParseFail
                   ELSE LET e == SkipWs(t, v.pos)
                            acc2 == [x \in (DOMAIN acc) \cup {k.val.s} |->
                                        IF x = k.val.s THEN v.val ELSE acc[x]]
                        IN  IF e > Len(t) THEN ParseFail
                            ELSE IF t[e] = "}" THEN Parsed(Obj(acc2), e + 1)
                            ELSE IF t[e] = ","
                                 THEN ScanMembers(t, SkipWs(t, e + 1), acc2)
                            ELSE ParseFail

ScanValue(t, i) ==
    IF i > Len(t) THEN ParseFail
    ELSE IF t[i] = "\"" THEN ScanString(t, i + 1)
    ELSE IF t[i] = "{"
         THEN LET j == SkipWs(t, i + 1) IN
              IF j <= Len(t) /\ t[j] = "}" THEN Parsed(EmptyDict, j + 1)
              ELSE ScanMembers(t, j, <<>>)
    ELSE ScanNumber(t, i)

\* json.loads(text): a value surrounded by optional whitespace, nothing else.
\* [ok |-> FALSE] stands for json.JSONDecodeError.
Loads(t) ==
    LET v == ScanValue(t, SkipWs(t, 1)) IN
    IF v.ok /\ SkipWs(t, v.pos) = Len(t) + 1 THEN [ok |-> TRUE, val |-> v.val]
    ELSE [ok |-> FALSE, val |-> None]

-----------------------------------------------------------------------------
(* Exceptions.  Every exception the collaborators and the built-ins raise  *)
(* here is a subclass of Exception; the stage functions hold no call that  *)
(* raises a BaseException outside it.                                      *)

Raise(type, msg) == [type |-> type, msg |-> msg]

\* a handler that catches the parser's exception only
ExceptException_ParserOnly(exc) == exc.type = "OutputParserException"

\* `except Exception` (data_processor.py:87, 133, 204)
ExceptException(exc) ==
    exc.type \in {"ValueError", "IndexError", "AttributeError",
                  "OutputParserException", "Exception"}

MsgInvalidLiteral ==
    <<"i", "n", "v", "a", "l", "i", "d", " ", "l", "i", "t", "e", "r", "a",
      "l", " ", "f", "o", "r", " ", "i", "n", "t", "(", ")", " ", "w", "i",
      "t", "h", " ", "b", "a", "s", "e", " ", "1", "0", ":", " ">>

MsgIndexError ==
    <<"l", "i", "s", "t", " ", "i", "n", "d", "e", "x", " ", "o", "u", "t",
      " ", "o", "f", " ", "r", "a", "n", "g", "e">>

MsgNaN ==
    <<"c", "a", "n", "n", "o", "t", " ", "c", "o", "n", "v", "e", "r", "t",
      " ", "f", "l", "o", "a", "t", " ", "N", "a", "N", " ", "t", "o", " ",
      "i", "n", "t", "e", "g", "e", "r">>

MsgNoGet ==
    <<"o", "b", "j", "e", "c", "t", " ", "h", "a", "s", " ", "n", "o", " ",
      "a", "t", "t", "r", "i", "b", "u", "t", "e", " ", "'", "g", "e", "t",
      "'">>

-----------------------------------------------------------------------------
(* Stage 3: get_health_score_dynamic_langchain *)

Unknown == <<"U", "n", "k", "n", "o", "w", "n">>
DefaultAge == 30

\* the first whitespace-delimited token of a string, <<>> when there is none
FirstToken(chars) ==
    LET start == IF \E i \in 1..Len(chars) : chars[i] # " "
                 THEN CHOOSE i \in 1..Len(chars) :
                        chars[i] # " " /\ \A j \in 1..(i - 1) : chars[j] = " "
                 ELSE 0
        stop == IF start = 0 THEN 0
                ELSE IF \E i \in start..Len(chars) : chars[i] = " "
                THEN CHOOSE i \in start..Len(chars) :
                        chars[i] = " " /\ \A j \in start..(i - 1) : chars[j] # " "
                ELSE Len(chars) + 1
    IN  IF start = 0 THEN <<>> ELSE SubSeq(chars, start, stop - 1)

RECURSIVE DigitsValue(_, _)
DigitsValue(chars, acc) ==
    IF chars = <<>> THEN acc
    ELSE DigitsValue(Tail(chars), 10 * acc + DigitVal(Head(chars)))

\* int(token) for a token without whitespace: an optional sign, then digits
IntOfToken(token) ==
    LET signed == token # <<>> /\ Head(token) \in {"-", "+"}
        body == IF signed THEN Tail(token) ELSE token
    IN  IF body # <<>> /\ \A i \in 1..Len(body) : body[i] \in Digits
        THEN [ok |-> TRUE,
              val |-> IF signed /\ Head(token) = "-"
                      THEN 0 - DigitsValue(body, 0) ELSE DigitsValue(body, 0)]
        ELSE [ok |-> FALSE, val |-> 0]

\* int(x) for a float held in tenths: truncation toward zero
TruncTenths(x) == IF x >= 0 THEN x \div 10 ELSE 0 - ((0 - x) \div 10)

\* data_processor.py:147-153
ConvertAge(age_str) ==
    CASE age_str.t = "str" ->
            LET token == FirstToken(age_str.s) IN
            IF token = <<>>
            THEN [ok |-> FALSE, age |-> 0,
                  exc |-> Raise("IndexError", MsgIndexError)]
            ELSE IF IntOfToken(token).ok
            THEN [ok |-> TRUE, age |-> IntOfToken(token).val,
                  exc |-> Raise("", <<>>)]
            ELSE [ok |-> FALSE, age |-> 0,
                  exc |-> Raise("ValueError",
                                MsgInvalidLiteral \o <<"'">> \o token \o <<"'">>)]
      [] age_str.t = "num" ->
            [ok |-> TRUE, age |-> age_str.n, exc |-> Raise("", <<>>)]
      [] age_str.t = "bool" ->
            [ok |-> TRUE, age |-> IF age_str.b THEN 1 ELSE 0,
             exc |-> Raise("", <<>>)]
      [] age_str.t = "float" ->
            [ok |-> TRUE, age |-> TruncTenths(age_str.tenths),
             exc |-> Raise("", <<>>)]
      [] age_str.t = "nan" ->
            [ok |-> FALSE, age |-> 0, exc |-> Raise("ValueError", MsgNaN)]
      [] OTHER ->
            [ok |-> TRUE, age |-> DefaultAge, exc |-> Raise("", <<>>)]

\* patient_data.get("data", {}).get(key): AttributeError when the value
\* stored under "data" is no dict
NestedGet(patient_data, key) ==
    LET data == GetOr(patient_data, "data", EmptyDict) IN
    IF data.t = "obj" THEN [ok |-> TRUE, val |-> Get(data, key)]
    ELSE [ok |-> FALSE, val |-> None]

\* data_processor.py:143: top-level age, or else the nested one
AgeLookup(patient_data) ==
    IF Truthy(Get(patient_data, "age"))
    THEN [ok |-> TRUE, val |-> Get(patient_data, "age")]
    ELSE NestedGet(patient_data, "age")

\* the lookup without the sex under data
GenderLookup_NoNestedSex(patient_data) ==
    IF Truthy(Get(patient_data, "gender"))
    THEN [ok |-> TRUE, val |-> Get(patient_data, "gender")]
    ELSE NestedGet(patient_data, "gender")

\* data_processor.py:144: top-level gender, or nested gender, or nested sex
GenderLookup(patient_data) ==
    IF Truthy(Get(patient_data, "gender"))
    THEN [ok |-> TRUE, val |-> Get(patient_data, "gender")]
    ELSE IF ~NestedGet(patient_data, "gender").ok
    THEN [ok |-> FALSE, val |-> None]
    ELSE IF Truthy(NestedGet(patient_data, "gender").val)
    THEN NestedGet(patient_data, "gender")
    ELSE NestedGet(patient_data, "sex")

\* data_processor.py:156-157
GenderOrUnknown(gender) == IF Truthy(gender) THEN gender ELSE Str(Unknown)

NoPrompt == [built |-> FALSE, age |-> 0, gender |-> None, lab_data |-> None]

\* The try body up to the built prompt (data_processor.py:142-199): the
\* prompt's variables, or the exception raised on the way.
BuildPrompt(patient_data) ==
    LET a == AgeLookup(patient_data)
        g == GenderLookup(patient_data)
        c == ConvertAge(a.val)
    IN  IF ~a.ok \/ ~g.ok
        THEN [ok |-> FALSE, prompt |-> NoPrompt,
              exc |-> Raise("AttributeError", MsgNoGet)]
        ELSE IF ~c.ok
        THEN [ok |-> FALSE, prompt |-> NoPrompt, exc |-> c.exc]
        ELSE [ok |-> TRUE,
              prompt |-> [built |-> TRUE, age |-> c.age,
                          gender |-> GenderOrUnknown(g.val),
                          lab_data |-> patient_data],
              exc |-> Raise("", <<>>)]

\* What a function call left behind: the value returned, or the exception
\* that crossed its boundary; whether the gateway was invoked, with which
\* prompt.
Returned(v, inv, prompt) ==
    [called |-> TRUE, raised |-> FALSE, ret |-> v, invoked |-> inv,
     prompt |-> prompt]

Propagated(inv, prompt) ==
    [called |-> TRUE, raised |-> TRUE, ret |-> None, invoked |-> inv,
     prompt |-> prompt]

NoCall == [called |-> FALSE]

\* data_processor.py:137-205.  gateway is what llm.invoke does when called:
\* [raises |-> FALSE, text |-> content] or [raises |-> TRUE, exc |-> e].
get_health_score_dynamic_langchain(patient_data, gateway) ==
    LET p == BuildPrompt(patient_data)
        inv == p.ok
        exc == IF ~p.ok THEN p.exc ELSE gateway.exc
    IN  IF p.ok /\ ~gateway.raises
        THEN Returned(gateway.text, TRUE, p.prompt)
        ELSE IF ExceptException(exc)
        THEN Returned(ErrorSentinel(exc.msg), inv, p.prompt)
        ELSE Propagated(inv, p.prompt)

-----------------------------------------------------------------------------
(* Stages 1 and 2: the chains prompt | llm | PydanticOutputParser *)

ParamKeys == {"specificGravity", "proteins", "sugar", "pusCells"}

\* DynamicJSONModel (data_processor.py:14-19): the one field `data`, a dict,
\* an empty dict when the key is missing; keys the model does not declare
\* are ignored.  [ok |-> FALSE] is the validation error.
ValidateDynamicJSONModel(json) ==
    IF json.t # "obj" THEN [ok |-> FALSE, model |-> None]
    ELSE IF "data" \notin DOMAIN json.o
    THEN [ok |-> TRUE, model |-> [cls |-> "DynamicJSONModel", data |-> EmptyDict]]
    ELSE IF json.o["data"].t = "obj"
    THEN [ok |-> TRUE,
          model |-> [cls |-> "DynamicJSONModel", data |-> json.o["data"]]]
    ELSE [ok |-> FALSE, model |-> None]

\* ExtractedHealthData (data_processor.py:21-27): reportDate a required
\* string, healthParameters a required dict with any keys; keys the model
\* does not declare are ignored.
ValidateExtractedHealthData(json) ==
    IF json.t # "obj" THEN [ok |-> FALSE, model |-> None]
    ELSE IF {"reportDate", "healthParameters"} \subseteq DOMAIN json.o
            /\ json.o["reportDate"].t = "str"
            /\ json.o["healthParameters"].t = "obj"
    THEN [ok |-> TRUE,
          model |-> [cls |-> "ExtractedHealthData",
                     reportDate |-> json.o["reportDate"],
                     healthParameters |-> json.o["healthParameters"]]]
    ELSE [ok |-> FALSE, model |-> None]

\* BaseModel.model_dump(): a dict of the declared fields
model_dump(m) ==
    IF m.cls = "DynamicJSONModel"
    THEN Obj([k \in {"data"} |-> m.data])
    ELSE Obj([k \in {"reportDate", "healthParameters"} |->
                IF k = "reportDate" THEN m.reportDate ELSE m.healthParameters])

\* chain.invoke: what the llm did, then the parser.  chain is
\* [kind |-> "raise"] (the llm call raised), [kind |-> "garbage"] (a text
\* that holds no JSON) or [kind |-> "json", val |-> the JSON value].
ChainInvoke(chain, validated) ==
    IF chain.kind = "raise"
    THEN [ok |-> FALSE, model |-> None, exc |-> Raise("Exception", <<>>)]
    ELSE IF chain.kind = "garbage" \/ ~validated.ok
    THEN [ok |-> FALSE, model |-> None,
          exc |-> Raise("OutputParserException", <<>>)]
    ELSE [ok |-> TRUE, model |-> validated.model, exc |-> Raise("", <<>>)]

\* data_processor.py:37-89.  loader_raises: UnstructuredPDFLoader.load raised.
extract_raw_json_from_pdf(loader_raises, chain) ==
    LET r == ChainInvoke(chain,
                 IF chain.kind = "json" THEN ValidateDynamicJSONModel(chain.val)
                 ELSE [ok |-> FALSE, model |-> None])
        exc == IF loader_raises THEN Raise("Exception", <<>>) ELSE r.exc
    IN  IF ~loader_raises /\ r.ok THEN Returned(r.model, TRUE, NoPrompt)
        ELSE IF ExceptException(exc)
        THEN Returned(None, ~loader_raises, NoPrompt)
        ELSE Propagated(~loader_raises, NoPrompt)

\* data_processor.py:91-135
extract_specific_health_data(json_data, chain) ==
    LET r == ChainInvoke(chain,
                 IF chain.kind = "json"
                 THEN ValidateExtractedHealthData(chain.val)
                 ELSE [ok |-> FALSE, model |-> None])
    IN  IF r.ok THEN Returned(r.model, TRUE, NoPrompt)
        ELSE IF ExceptException(r.exc) THEN Returned(None, TRUE, NoPrompt)
        ELSE Propagated(TRUE, NoPrompt)

-----------------------------------------------------------------------------
(* Inputs: what the uploaded report, the model and the environment supply *)

Absent == [t |-> "absent"]

\* the dict holding the keys of f whose value is not Absent
MkObj(f) == Obj([k \in {x \in DOMAIN f : f[x] # Absent} |-> f[k]])

AgeAlphabet == {"2", "3", " ", "Y", "-"}
Age23Years == <<"2", "3", " ", "Y", "e", "a", "r", "s">>
AgeNA == <<"N", "/", "A">>
AgeStrings == SeqsUpTo(AgeAlphabet, MaxAgeLen) \cup {Age23Years, AgeNA}

AgeVals ==
    {Absent, None, Num(0), Num(45), Float(459), Float(0 - 459), Float(0), NaN,
     Bool(TRUE), Bool(FALSE), List} \cup {Str(a) : a \in AgeStrings}

NestedAgeVals == {Absent, Num(45), Str(AgeNA)}

PatientData(age, gender, sex, data) ==
    MkObj([age |-> age, gender |-> gender, sex |-> sex, data |-> data])

NestedData(age, gender, sex) ==
    MkObj([age |-> age, gender |-> gender, sex |-> sex])

\* what llm.invoke does in stage 3
GatewayReturns(text) == [raises |-> FALSE, text |-> text, exc |-> Raise("", <<>>)]
GatewayRaises(msg) ==
    [raises |-> TRUE, text |-> <<>>, exc |-> Raise("Exception", msg)]

MsgAlphabet == {"x", "\"", "\\", "}"}
Msgs == SeqsUpTo(MsgAlphabet, MaxMsgLen)

TextAlphabet == {"{", "}", "x"}
FencedScore ==
    <<"x", " ", "{", "\"", "s", "c", "o", "r", "e", "\"", ":", " ", "8", "5",
      "}", " ", "x">>
BraceInString ==
    <<"{", "\"", "s", "c", "o", "r", "e", "\"", ":", " ", "\"", "}", "\"">>
Texts == SeqsUpTo(TextAlphabet, MaxTextLen) \cup {FencedScore, BraceInString}

Gateways == {GatewayReturns(t) : t \in Texts} \cup {GatewayRaises(m) : m \in Msgs}

\* direct calls of stage 3: every age with few genders, every gender
\* placement with few ages, every gateway outcome with few records
ScoreInputs ==
    {[fn |-> "stage3", gateway |-> g,
      patient_data |-> PatientData(a, Absent, Absent, d)] :
        a \in AgeVals,
        d \in {Absent} \cup {NestedData(n, Absent, Absent) : n \in NestedAgeVals},
        g \in {GatewayReturns(FencedScore), GatewayRaises(<<"x">>)}}
    \cup
    {[fn |-> "stage3", gateway |-> GatewayReturns(FencedScore),
      patient_data |-> PatientData(a, tg, ts, d)] :
        a \in {Absent, Num(45)},
        tg \in {Absent, Str(<<>>), Str(<<"F">>)},
        ts \in {Absent, Str(<<"O">>)},
        d \in {Absent, None, Str(<<"x">>)}
              \cup {NestedData(Absent, ng, ns) :
                        ng \in {Absent, None, Str(<<>>), Str(<<"M">>)},
                        ns \in {Absent, Str(<<>>), Str(<<"X">>)}}}
    \cup
    {[fn |-> "stage3", gateway |-> g,
      patient_data |-> PatientData(a, Absent, Absent, Absent)] :
        a \in {Absent, Str(Age23Years), Str(AgeNA)}, g \in Gateways}

\* what the chain of stage 1 or 2 does
ChainRaises == [kind |-> "raise", val |-> None]
ChainGarbage == [kind |-> "garbage", val |-> None]
ChainJSON(v) == [kind |-> "json", val |-> v]

DataVals ==
    {Absent, None, Str(<<"x">>), EmptyDict,
     NestedData(Str(Age23Years), Str(<<"F">>), Absent),
     NestedData(Str(AgeNA), Absent, Str(<<"M">>))}

Stage1JSON ==
    {Num(1), List}
    \cup {MkObj([data |-> d, patientName |-> n, age |-> a]) :
            d \in DataVals, n \in {Absent, Str(<<"J">>)},
            a \in {Absent, Num(45)}}

Stage1Chains == {ChainRaises, ChainGarbage} \cup {ChainJSON(v) : v \in Stage1JSON}

ReportDate == <<"2", "0", "2", "4", "-", "0", "1", "-", "1", "5">>
OtherKeys == {"hemoglobin"}

HealthParameterVals ==
    {Absent, Str(<<"x">>)}
    \cup {Obj([k \in ks |-> Str(<<"v">>)]) : ks \in SUBSET (ParamKeys \cup OtherKeys)}

Stage2JSON ==
    {Num(1)}
    \cup {MkObj([reportDate |-> r, healthParameters |-> h, note |-> n]) :
            r \in {Absent, None, Str(ReportDate)},
            h \in HealthParameterVals,
            n \in {Absent, Str(<<"n">>)}}

Stage2Chains == {ChainRaises, ChainGarbage} \cup {ChainJSON(v) : v \in Stage2JSON}

ExtractInputs ==
    {[fn |-> "stage1", loader_raises |-> l, chain |-> c] :
        l \in BOOLEAN, c \in Stage1Chains}
    \cup
    {[fn |-> "stage2", json_data |-> Obj([k \in {"data"} |-> EmptyDict]),
      chain |-> c] : c \in Stage2Chains}

-----------------------------------------------------------------------------
(* Direct calls of the stage functions *)

Idle ==
    /\ pc = "off"
    /\ api_key = TRUE
    /\ tmp_file = "none"
    /\ raw_json_model = None
    /\ health_score_raw_output = <<>>
    /\ specific_health_data_model = None
    /\ span = "none"
    /\ invoked = {}
    /\ errors = {}
    /\ code_shown = None
    /\ score_shown = None
    /\ graph_shown = None

pipeline_vars == <<pc, api_key, tmp_file, raw_json_model,
                   health_score_raw_output, specific_health_data_model, span,
                   invoked, errors, code_shown, score_shown, graph_shown>>

InitScore == Idle /\ fn_in \in ScoreInputs /\ fn_out = NoCall

CallScore ==
    /\ ~fn_out.called
    /\ fn_in.fn = "stage3"
    /\ fn_out' = get_health_score_dynamic_langchain(fn_in.patient_data,
                                                    fn_in.gateway)
    /\ UNCHANGED <<fn_in, pipeline_vars>>

SpecScore == InitScore /\ [][CallScore]_vars

InitExtract == Idle /\ fn_in \in ExtractInputs /\ fn_out = NoCall

CallRawJson ==
    /\ ~fn_out.called
    /\ fn_in.fn = "stage1"
    /\ fn_out' = extract_raw_json_from_pdf(fn_in.loader_raises, fn_in.chain)
    /\ UNCHANGED <<fn_in, pipeline_vars>>

CallSpecific ==
    /\ ~fn_out.called
    /\ fn_in.fn = "stage2"
    /\ fn_out' = extract_specific_health_data(fn_in.json_data, fn_in.chain)
    /\ UNCHANGED <<fn_in, pipeline_vars>>

NextExtract == CallRawJson \/ CallSpecific

SpecExtract == InitExtract /\ [][NextExtract]_vars

-----------------------------------------------------------------------------
(* The run block of app.py: one script run for one upload *)

\* initialize_llm (data_processor.py:31-35): ValueError without a key, else
\* whatever the ChatOpenAI constructor does ("ok" or the exception it raises)
initialize_llm(key, constructor) == IF ~key THEN "ValueError" ELSE constructor

\* app.py:109-116: locate the first "{" and the last "}", slice, json.loads
ExtractSpan(text) ==
    LET first == Find(text, "{")
        last == RFind(text, "}")
        analysis_json_data == Slice(text, first - 1, last)
    IN  IF first = 0 \/ last = 0
        THEN [kind |-> "no_json", json |-> None, text |-> <<>>]
        ELSE IF ~Loads(analysis_json_data).ok
        THEN [kind |-> "malformed", json |-> None, text |-> analysis_json_data]
        ELSE [kind |-> "ok", json |-> Loads(analysis_json_data).val,
              text |-> analysis_json_data]

Init ==
    /\ pc = "sidebar"
    /\ api_key \in BOOLEAN
    /\ tmp_file = "none"
    /\ raw_json_model = None
    /\ health_score_raw_output = <<>>
    /\ specific_health_data_model = None
    /\ span = "none"
    /\ invoked = {}
    /\ errors = {}
    /\ code_shown = None
    /\ score_shown = None
    /\ graph_shown = None
    /\ fn_in = NoCall
    /\ fn_out = NoCall

\* app.py:28-36: without a key the run stops before the uploader
Sidebar ==
    /\ pc = "sidebar"
    /\ IF ~api_key
       THEN pc' = "stopped" /\ errors' = errors \cup {"api_key_not_found"}
       ELSE pc' = "uploader" /\ UNCHANGED errors
    /\ UNCHANGED <<api_key, tmp_file, raw_json_model, health_score_raw_output,
                   specific_health_data_model, span, invoked, code_shown,
                   score_shown, graph_shown, fn_in, fn_out>>

\* app.py:59-61, 183-184: nothing uploaded
NoUpload ==
    /\ pc = "uploader"
    /\ pc' = "end"
    /\ UNCHANGED <<api_key, tmp_file, raw_json_model, health_score_raw_output,
                   specific_health_data_model, span, invoked, errors,
                   code_shown, score_shown, graph_shown, fn_in, fn_out>>

\* app.py:63: NamedTemporaryFile(delete=False) creates the file
CreateTemp ==
    /\ pc = "uploader"
    /\ tmp_file' = "present"
    /\ pc' = "write"
    /\ UNCHANGED <<api_key, raw_json_model, health_score_raw_output,
                   specific_health_data_model, span, invoked, errors,
                   code_shown, score_shown, graph_shown, fn_in, fn_out>>

\* app.py:64-65: the upload is written inside the `with`, before the try;
\* when the write raises, the `with` closes the file (delete=False keeps it)
\* and the exception leaves the script
WriteUpload ==
    /\ pc = "write"
    /\ \E write_raises \in BOOLEAN :
          pc' = IF write_raises THEN "crashed" ELSE "init_llm"
    /\ UNCHANGED <<api_key, tmp_file, raw_json_model, health_score_raw_output,
                   specific_health_data_model, span, invoked, errors,
                   code_shown, score_shown, graph_shown, fn_in, fn_out>>

\* app.py:67-69, 175-178
InitLLM ==
    /\ pc = "init_llm"
    /\ \E constructor \in {"ok", "ValueError", "Exception"} :
          LET r == initialize_llm(api_key, constructor) IN
          /\ pc' = IF r = "ok" THEN "stage1" ELSE "finally"
          /\ errors' = CASE r = "ok" -> errors
                         [] r = "ValueError" -> errors \cup {"configuration_error"}
                         [] OTHER -> errors \cup {"unknown_error"}
    /\ UNCHANGED <<api_key, tmp_file, raw_json_model, health_score_raw_output,
                   specific_health_data_model, span, invoked, code_shown,
                   score_shown, graph_shown, fn_in, fn_out>>

\* app.py:76
RunStage1 ==
    /\ pc = "stage1"
    /\ \E loader_raises \in BOOLEAN, chain \in Stage1Chains :
          raw_json_model' = extract_raw_json_from_pdf(loader_raises, chain).ret
    /\ invoked' = invoked \cup {"stage1"}
    /\ pc' = "check1"
    /\ UNCHANGED <<api_key, tmp_file, health_score_raw_output,
                   specific_health_data_model, span, errors, code_shown,
                   score_shown, graph_shown, fn_in, fn_out>>

\* the run going on to the analysis whatever stage 1 returned
CheckRawJsonModel_AlwaysProceeds ==
    /\ pc = "check1"
    /\ pc' = "stage3"
    /\ UNCHANGED <<api_key, tmp_file, raw_json_model, health_score_raw_output,
                   specific_health_data_model, span, invoked, errors,
                   code_shown, score_shown, graph_shown, fn_in, fn_out>>

\* app.py:78-101, 172-173: a model instance is truthy, None is not
CheckRawJsonModel ==
    /\ pc = "check1"
    /\ IF raw_json_model # None
       THEN pc' = "stage3" /\ UNCHANGED errors
       ELSE pc' = "finally" /\ errors' = errors \cup {"failed_to_extract"}
    /\ UNCHANGED <<api_key, tmp_file, raw_json_model, health_score_raw_output,
                   specific_health_data_model, span, invoked, code_shown,
                   score_shown, graph_shown, fn_in, fn_out>>

\* app.py:105
RunStage3 ==
    /\ pc = "stage3"
    /\ \E gateway \in Gateways :
          health_score_raw_output' =
              get_health_score_dynamic_langchain(model_dump(raw_json_model),
                                                 gateway).ret
    /\ invoked' = invoked \cup {"stage3"}
    /\ pc' = "parse"
    /\ UNCHANGED <<api_key, tmp_file, raw_json_model,
                   specific_health_data_model, span, errors, code_shown,
                   score_shown, graph_shown, fn_in, fn_out>>

\* app.py:107-148, 166-170: the ValueError of line 113 is no JSONDecodeError,
\* so it is handled by `except Exception`, which shows only its message
ParseScore ==
    /\ pc = "parse"
    /\ LET r == ExtractSpan(health_score_raw_output) IN
       /\ span' = r.kind
       /\ CASE r.kind = "no_json" ->
                 /\ errors' = errors \cup {"unexpected_analysis_error"}
                 /\ pc' = "finally"
                 /\ UNCHANGED <<code_shown, score_shown>>
            [] r.kind = "malformed" ->
                 /\ errors' = errors \cup {"could_not_parse"}
                 /\ code_shown' = Str(health_score_raw_output)
                 /\ pc' = "finally"
                 /\ UNCHANGED score_shown
            [] r.kind = "ok" ->
                 /\ score_shown' = GetOr(r.json, kScore, Num(0))
                 /\ pc' = "stage2"
                 /\ UNCHANGED <<errors, code_shown>>
    /\ UNCHANGED <<api_key, tmp_file, raw_json_model, health_score_raw_output,
                   specific_health_data_model, invoked, graph_shown, fn_in,
                   fn_out>>

\* app.py:150-164: stage 2 sits inside the try that parsed the stage-3 text
RunStage2 ==
    /\ pc = "stage2"
    /\ \E chain \in Stage2Chains :
          LET m == extract_specific_health_data(model_dump(raw_json_model),
                                                chain).ret IN
          /\ specific_health_data_model' = m
          /\ IF m # None
             THEN graph_shown' = model_dump(m) /\ UNCHANGED errors
             ELSE /\ errors' = errors \cup {"failed_specific_parameters"}
                  /\ UNCHANGED graph_shown
    /\ invoked' = invoked \cup {"stage2"}
    /\ pc' = "finally"
    /\ UNCHANGED <<api_key, tmp_file, raw_json_model, health_score_raw_output,
                   span, code_shown, score_shown, fn_in, fn_out>>

\* app.py:179-181
Finally ==
    /\ pc = "finally"
    /\ tmp_file' = "removed"
    /\ pc' = "end"
    /\ UNCHANGED <<api_key, raw_json_model, health_score_raw_output,
                   specific_health_data_model, span, invoked, errors,
                   code_shown, score_shown, graph_shown, fn_in, fn_out>>

Next ==
    \/ Sidebar
    \/ NoUpload
    \/ CreateTemp
    \/ WriteUpload
    \/ InitLLM
    \/ RunStage1
    \/ CheckRawJsonModel
    \/ RunStage3
    \/ ParseScore
    \/ RunStage2
    \/ Finally

Spec == Init /\ [][Next]_vars

RunEnded == pc \in {"stopped", "end", "crashed"}

-----------------------------------------------------------------------------
(* Properties of stage 3, checked under SpecScore *)

Stage3Called == fn_out.called /\ fn_in.fn = "stage3"

\* the text parses to an object with score -1 and the given reasoning
IsSentinelFor(text, msg) ==
    LET j == Loads(text) IN
    /\ j.ok
    /\ j.val.t = "obj"
    /\ DOMAIN j.val.o = {kScore, kReasoning}
    /\ j.val.o[kScore] = Num(0 - 1)
    /\ j.val.o[kReasoning] = Str(ErrorPrefix \o msg)

\* C4: stage 3 never raises; when the gateway call raises, the text it
\* returns parses as JSON to an object whose score is -1 and whose reasoning
\* is "Error: " followed by the message; when the gateway call returns, the
\* text it returns is the gateway's text unchanged.
C4_SentinelOnGatewayFailure ==
    Stage3Called =>
        /\ ~fn_out.raised
        /\ (fn_out.invoked /\ fn_in.gateway.raises) =>
                IsSentinelFor(fn_out.ret, fn_in.gateway.exc.msg)
        /\ (fn_out.invoked /\ ~fn_in.gateway.raises) =>
                fn_out.ret = fn_in.gateway.text

\* the gateway raised with a message that json.dumps has to escape
C4_Witness ==
    /\ Stage3Called
    /\ fn_out.invoked
    /\ fn_in.gateway.raises
    /\ fn_in.gateway.exc.msg = <<"\"", "}">>
    /\ IsSentinelFor(fn_out.ret, <<"\"", "}">>)

\* the record's age as the claim reads it: the top-level value when there
\* is one, else the one nested under data
SourceAge(patient_data) ==
    IF Get(patient_data, "age") # None THEN Get(patient_data, "age")
    ELSE IF "data" \in DOMAIN patient_data.o
    THEN Get(patient_data.o["data"], "age")
    ELSE None

\* the age the claim states for a source value
ClaimedAge(v) ==
    CASE v.t = "str" ->
            IF IntOfToken(FirstToken(v.s)).ok
            THEN IntOfToken(FirstToken(v.s)).val ELSE DefaultAge
      [] v.t = "num" -> v.n
      [] v.t = "float" -> TruncTenths(v.tenths)
      [] OTHER -> DefaultAge

\* the records the claim speaks of: data, when there is one, is a mapping,
\* and the age is absent, a string or a finite number
WellFormedRecord(patient_data) ==
    /\ "data" \in DOMAIN patient_data.o => patient_data.o["data"].t = "obj"
    /\ SourceAge(patient_data).t \in {"null", "str", "num", "float"}

\* C5: for every source age, stage 3 builds the prompt and invokes the
\* gateway with the leading integer of a string age, the truncated value of
\* a numeric age, and 30 for an absent or unparsable age; it never raises.
C5_AgeAlwaysNormalized ==
    (Stage3Called /\ WellFormedRecord(fn_in.patient_data)) =>
        /\ ~fn_out.raised
        /\ fn_out.invoked
        /\ fn_out.prompt.built
        /\ fn_out.prompt.age = ClaimedAge(SourceAge(fn_in.patient_data))

GenderFields(patient_data) ==
    LET data == GetOr(patient_data, "data", EmptyDict) IN
    {Get(patient_data, "gender"), Get(patient_data, "sex")}
    \cup (IF data.t = "obj" THEN {Get(data, "gender"), Get(data, "sex")} ELSE {})

\* C9 as stated: the prompt's gender is "Unknown" exactly when no gender or
\* sex value is present at the top level or under data, and is one of the
\* present values otherwise.  An empty value is read as not present.
C9_UnknownIffAbsentEverywhere ==
    (Stage3Called /\ fn_out.prompt.built) =>
        LET present == {v \in GenderFields(fn_in.patient_data) : Truthy(v)} IN
        /\ (fn_out.prompt.gender = Str(Unknown)) <=> (present = {})
        /\ present # {} => fn_out.prompt.gender \in present

\* the three places the gender is read from, in the order they are read
GenderCandidates(patient_data) ==
    LET data == GetOr(patient_data, "data", EmptyDict) IN
    <<Get(patient_data, "gender"),
      IF data.t = "obj" THEN Get(data, "gender") ELSE None,
      IF data.t = "obj" THEN Get(data, "sex") ELSE None>>

\* C9 (amended): the prompt's gender is the first non-empty value among the
\* top-level gender, the gender under data and the sex under data, and the
\* literal "Unknown" when none of the three holds a non-empty value; a
\* top-level sex is not read.
C9_FirstNonEmptyOfThree ==
    (Stage3Called /\ fn_out.prompt.built) =>
        LET c == GenderCandidates(fn_in.patient_data) IN
        /\ (\A i \in 1..3 : ~Truthy(c[i])) => fn_out.prompt.gender = Str(Unknown)
        /\ \A i \in 1..3 :
              (Truthy(c[i]) /\ \A j \in 1..(i - 1) : ~Truthy(c[j]))
                  => fn_out.prompt.gender = c[i]

\* only the sex under data holds a value, and it reaches the prompt
C9_Witness ==
    /\ Stage3Called
    /\ fn_out.prompt.built
    /\ Get(fn_in.patient_data, "gender") = Str(<<>>)
    /\ GenderCandidates(fn_in.patient_data)[2] = None
    /\ GenderCandidates(fn_in.patient_data)[3] = Str(<<"X">>)
    /\ fn_out.prompt.gender = Str(<<"X">>)

-----------------------------------------------------------------------------
(* Properties of stages 1 and 2, checked under SpecExtract *)

\* C6: whenever stage 2 returns a record, the keys of its healthParameters
\* are among specificGravity, proteins, sugar and pusCells.
C6_OnlyDesignatedParameters ==
    (fn_out.called /\ fn_in.fn = "stage2" /\ fn_out.ret # None) =>
        DOMAIN fn_out.ret.healthParameters.o \subseteq ParamKeys

\* C7: whenever the model's response is a JSON object, the record stage 1
\* returns has exactly the keys of the response, each with its value.
C7_KeysOfResponsePreserved ==
    (/\ fn_out.called
     /\ fn_in.fn = "stage1"
     /\ ~fn_in.loader_raises
     /\ fn_in.chain.kind = "json"
     /\ fn_in.chain.val.t = "obj") =>
        /\ fn_out.ret # None
        /\ DOMAIN model_dump(fn_out.ret).o = DOMAIN fn_in.chain.val.o
        /\ \A k \in DOMAIN fn_in.chain.val.o :
              model_dump(fn_out.ret).o[k] = fn_in.chain.val.o[k]

\* the response is a JSON object that fits the stage's shape
FitsShape(fn, chain) ==
    /\ chain.kind = "json"
    /\ chain.val.t = "obj"
    /\ IF fn = "stage1"
       THEN "data" \in DOMAIN chain.val.o => chain.val.o["data"].t = "obj"
       ELSE /\ "reportDate" \in DOMAIN chain.val.o
            /\ chain.val.o["reportDate"].t = "str"
            /\ "healthParameters" \in DOMAIN chain.val.o
            /\ chain.val.o["healthParameters"].t = "obj"

StageFailed ==
    \/ fn_in.fn = "stage1" /\ fn_in.loader_raises
    \/ ~FitsShape(fn_in.fn, fn_in.chain)

\* C10: stages 1 and 2 never raise; they return null when text extraction
\* raised, when the gateway call raised or when the response did not parse
\* against the shape, and a record only when the response parsed against it.
C10_NullOnAnyFailure ==
    (fn_out.called /\ fn_in.fn \in {"stage1", "stage2"}) =>
        /\ ~fn_out.raised
        /\ StageFailed <=> (fn_out.ret = None)

\* the gateway call of stage 1 raised and the stage returned null
C10_Witness ==
    /\ fn_out.called
    /\ fn_in.fn = "stage1"
    /\ ~fn_in.loader_raises
    /\ fn_in.chain.kind = "raise"
    /\ ~fn_out.raised
    /\ fn_out.ret = None

-----------------------------------------------------------------------------
(* Properties of the run, checked under Spec *)

\* C1: once stage 1 has returned null, stages 2 and 3 are never invoked in
\* that run, and the run ends having reported the extraction failure.
C1_NullStage1StopsRun ==
    ("stage1" \in invoked /\ raw_json_model = None) =>
        /\ "stage2" \notin invoked
        /\ "stage3" \notin invoked
        /\ pc \in {"check1", "finally", "end"}
        /\ pc \in {"finally", "end"} => "failed_to_extract" \in errors

\* a run that ended after stage 1 returned null
C1_Witness ==
    /\ pc = "end"
    /\ "stage1" \in invoked
    /\ raw_json_model = None
    /\ invoked = {"stage1"}
    /\ errors = {"failed_to_extract"}

Stage3Reported ==
    \/ score_shown # None
    \/ errors \cap {"unexpected_analysis_error", "could_not_parse"} # {}

Stage2Reported ==
    \/ graph_shown # None
    \/ "failed_specific_parameters" \in errors

\* C2: a run in which stage 1 succeeded ends with stage 2 and stage 3 both
\* invoked and the outcome of each reported, whatever the other's outcome.
C2_BothStagesRunAndReported ==
    (pc = "end" /\ "stage1" \in invoked /\ raw_json_model # None) =>
        /\ "stage3" \in invoked
        /\ "stage2" \in invoked
        /\ Stage3Reported
        /\ Stage2Reported

\* C3: no run ends with the temporary file still present.
C3_TempFileRemovedOnEveryExit == RunEnded => tmp_file # "present"

\* C8: when span extraction fails, for want of a brace or because the span
\* does not parse, the raw stage-3 text is shown verbatim, and the two
\* failures are reported as distinct outcomes.
C8_RawTextShownOnSpanFailure ==
    (pc = "end" /\ span \in {"no_json", "malformed"}) =>
        /\ code_shown = Str(health_score_raw_output)
        /\ span = "no_json" <=> "unexpected_analysis_error" \in errors
        /\ span = "malformed" <=> "could_not_parse" \in errors

=============================================================================
